---- MODULE Spec2Model ----
(***************************************************************************)
(* Model of webui/static/app.js: the dashboard's selection reconciler      *)
(* (setActiveRecord / renderRecordList), the detail loader, the dashboard  *)
(* refresh and the game-task supervisor (handleStartGame / monitorGameTask *)
(* and its poll closure).                                                  *)
(*                                                                         *)
(* JavaScript runs each callback to its next await atomically, so every    *)
(* action below is one callback: a user event, a network completion or a   *)
(* timer tick.  Requests in flight are kept in listReqs / detailReqs /     *)
(* submitReqs / pollReqs and may complete in any order, each with a        *)
(* response or with an error.                                              *)
(*                                                                         *)
(* Record ids are the positive integers 1..NumIds; NULL (0) is JavaScript's*)
(* null, and like null it is falsy.  A record is modelled by its id: no    *)
(* other field of a record takes part in a decision of the code.           *)
(* The DOM elements (recordGrid, detailPanel, summaryStats, toast,         *)
(* startGameBtn) and window.history.replaceState are taken to exist.       *)
(***************************************************************************)
EXTENDS Integers, Sequences, FiniteSets, TLC

\* ---------------------------------------------------------------- bounds
NumIds == 2        \* record ids the backend may use
MaxInFlight == 2   \* network requests outstanding at once, of all kinds
MaxTasks == 2      \* game tasks the backend accepts

NULL == 0
Ids == 1..NumIds
TaskIds == 1..MaxTasks

Range(f) == {f[i] : i \in DOMAIN f}

\* The record lists the backend may return (GET /api/records): sequences of
\* records with distinct ids, the empty list included.  The code compares ids
\* for equality only and reads the order of a list only through records[0],
\* so the lists are taken in one order, by id: any set of records may be
\* listed and any record may come first.
RecordLists ==
  {q \in UNION {[1..n -> Ids] : n \in 0..NumIds} :
     \A i, j \in DOMAIN q : i < j => q[i] < q[j]}

\* The statuses GET /api/games/{task_id} may report; "other" is any status
\* string that is none of running / finished / failed.
TaskStatuses == {"running", "finished", "failed", "other"}

\* The error field of a failed task's payload; "" is a payload without one.
Errors == {"", "simulation crashed"}

DefaultLabel == "default"
StartingLabel == "starting"
RunningLabel == "running"

VARIABLES
  activeCardId,     \* let activeCardId
  pendingRecordId,  \* let pendingRecordId
  gameTaskTimer,    \* let gameTaskTimer: NULL or the handle of the poll timer
  url,              \* the 'record' query parameter of window.location (NULL: absent)
  cards,            \* the data-record-id of the .record-card elements of recordGrid, in order
  placeholder,      \* recordGrid holds the "no records" placeholder card
  marks,            \* the ids of the cards that carry the class 'active'
  detail,           \* what detailPanel shows: [kind, id]
  summary,          \* what summaryStats shows: -1 before the first render, then the number of records
  button,           \* startGameBtn: [label, disabled]
  detailReqs,       \* the ids of the GET /api/records/{id} requests in flight (a bag, kept sorted)
  listReqs,         \* refreshDashboard calls awaiting GET /api/records, in issue order: [preferredId, forceDetail, superseded]
  fetched,          \* payload.records of the last GET /api/records that succeeded
  submitReqs,       \* POST /api/games requests in flight (a count)
  pollReqs,         \* task ids whose GET /api/games/{id} is in flight
  timers,           \* task ids whose poll timer is scheduled and has not fired
  tasksStarted,     \* number of tasks the backend has created (the last task id handed out)
  pc,               \* "loading" (script evaluated), "booting" (bootstrap awaits its refresh), "ready"
  trace,            \* the observable effects of the last callback, in order
  last              \* the last callback and its inputs, and the state it started from

vars == <<activeCardId, pendingRecordId, gameTaskTimer, url, cards, placeholder,
          marks, detail, summary, button, detailReqs, listReqs, fetched,
          submitReqs, pollReqs, timers, tasksStarted, pc, trace, last>>

\* ------------------------------------------------------- state as a value
\* The handlers below are written as functions from state to state, so that
\* a handler that calls another (renderRecordList -> setActiveRecord ->
\* loadRecordDetail) is the composition the code performs.
Here ==
  [activeCardId |-> activeCardId, pendingRecordId |-> pendingRecordId,
   gameTaskTimer |-> gameTaskTimer, url |-> url, cards |-> cards,
   placeholder |-> placeholder, marks |-> marks, detail |-> detail,
   summary |-> summary, button |-> button, detailReqs |-> detailReqs,
   listReqs |-> listReqs, fetched |-> fetched, submitReqs |-> submitReqs,
   pollReqs |-> pollReqs,
   timers |-> timers, trace |-> <<>>]

InFlight(s) ==
  Len(s.detailReqs) + Len(s.listReqs) + s.submitReqs + Cardinality(s.pollReqs)

\* The state after the callback is `next`; a callback that would leave more
\* than MaxInFlight requests outstanding is not taken.
Becomes(next) ==
  \E s \in {next} :
    /\ InFlight(s) <= MaxInFlight
    /\ activeCardId' = s.activeCardId
    /\ pendingRecordId' = s.pendingRecordId
    /\ gameTaskTimer' = s.gameTaskTimer
    /\ url' = s.url
    /\ cards' = s.cards
    /\ placeholder' = s.placeholder
    /\ marks' = s.marks
    /\ detail' = s.detail
    /\ summary' = s.summary
    /\ button' = s.button
    /\ detailReqs' = s.detailReqs
    /\ listReqs' = s.listReqs
    /\ fetched' = s.fetched
    /\ submitReqs' = s.submitReqs
    /\ pollReqs' = s.pollReqs
    /\ timers' = s.timers
    /\ trace' = s.trace

\* An observable effect: its kind, and the id (or flag) or the message it carries.
Effect(e, v, m) == [e |-> e, v |-> v, m |-> m]

Emit(s, e, v) == [s EXCEPT !.trace = Append(@, Effect(e, v, ""))]

\* The callback that ran last: its inputs (error is the error field of a
\* failed task's payload), and what the selection was when it started.  For
\* a list response, superseded is whether a refresh issued later had already
\* completed, and replaced whether such a response changed the rendered list.
Called(op, records, preferredId, forceDetail) ==
  [op |-> op, records |-> records, preferredId |-> preferredId,
   forceDetail |-> forceDetail, activeCardId |-> activeCardId,
   pendingRecordId |-> pendingRecordId, marks |-> marks, error |-> "",
   superseded |-> FALSE, replaced |-> FALSE]

Other(op) ==
  [op |-> op, records |-> <<>>, preferredId |-> NULL, forceDetail |-> FALSE,
   activeCardId |-> NULL, pendingRecordId |-> NULL, marks |-> {}, error |-> "",
   superseded |-> FALSE, replaced |-> FALSE]

SortedInsert(q, x) ==
  LET k == Cardinality({j \in DOMAIN q : q[j] <= x})
  IN [j \in 1..(Len(q) + 1) |->
        IF j <= k THEN q[j] ELSE IF j = k + 1 THEN x ELSE q[j - 1]]

RemoveAt(q, i) == [j \in 1..(Len(q) - 1) |-> IF j < i THEN q[j] ELSE q[j + 1]]

\* ------------------------------------------------------------- functions
showToast(s, message) ==
  [s EXCEPT !.trace = Append(@, Effect("toast", NULL, message))]

renderSummary(s, records) == [s EXCEPT !.summary = Len(records)]

\* The record_path parameter it deletes is not modelled.
updateRecordParam(s, recordId) ==
  Emit(IF recordId # NULL THEN [s EXCEPT !.url = recordId] ELSE s,
       "replaceState", recordId)

renderEmptyDetail(s, message) ==
  [s EXCEPT !.detail = [kind |-> message, id |-> NULL]]

renderDetail(s, recordId) ==
  [s EXCEPT !.detail = [kind |-> "detail", id |-> recordId]]

\* Up to its await: the panel shows "loading" and the request is issued.
loadRecordDetail(s, recordId) ==
  Emit([s EXCEPT !.detail = [kind |-> "loading", id |-> NULL],
                 !.detailReqs = SortedInsert(@, recordId)],
       "fetchDetail", recordId)

HasCard(s, recordId) == recordId \in Range(s.cards)

\* As setActiveRecord, without the lookup of the record's card (lines 95-98).
setActiveRecord_SkipsCardLookup(s, recordId, force, updateUrl) ==
  IF recordId = NULL
  THEN [s |-> s, ok |-> FALSE]
  ELSE LET s1 == [s EXCEPT !.pendingRecordId = NULL] IN
       IF ~force /\ s1.activeCardId = recordId
       THEN [s |-> IF updateUrl THEN updateRecordParam(s1, recordId) ELSE s1,
             ok |-> TRUE]
       ELSE LET s2 == [s1 EXCEPT !.marks = {recordId}, !.activeCardId = recordId]
                s3 == IF updateUrl THEN updateRecordParam(s2, recordId) ELSE s2
            IN [s |-> loadRecordDetail(s3, recordId), ok |-> TRUE]

\* As setActiveRecord, without clearing the earlier 'active' markings (line 109).
setActiveRecord_KeepsOldMarks(s, recordId, force, updateUrl) ==
  IF recordId = NULL \/ ~HasCard(s, recordId)
  THEN [s |-> s, ok |-> FALSE]
  ELSE LET s1 == [s EXCEPT !.pendingRecordId = NULL] IN
       IF ~force /\ s1.activeCardId = recordId
       THEN [s |-> IF updateUrl THEN updateRecordParam(s1, recordId) ELSE s1,
             ok |-> TRUE]
       ELSE LET s2 == [s1 EXCEPT !.marks = @ \cup {recordId}, !.activeCardId = recordId]
                s3 == IF updateUrl THEN updateRecordParam(s2, recordId) ELSE s2
            IN [s |-> loadRecordDetail(s3, recordId), ok |-> TRUE]

setActiveRecord(s, recordId, force, updateUrl) ==
  IF recordId = NULL \/ ~HasCard(s, recordId)
  THEN [s |-> s, ok |-> FALSE]
  ELSE LET s1 == [s EXCEPT !.pendingRecordId = NULL] IN
       IF ~force /\ s1.activeCardId = recordId
       THEN [s |-> IF updateUrl THEN updateRecordParam(s1, recordId) ELSE s1,
             ok |-> TRUE]
       ELSE LET s2 == [s1 EXCEPT !.marks = {recordId}, !.activeCardId = recordId]
                s3 == IF updateUrl THEN updateRecordParam(s2, recordId) ELSE s2
            IN [s |-> loadRecordDetail(s3, recordId), ok |-> TRUE]

Includes(q, x) == x \in Range(q)

\* As targetCandidates, with the active id pushed before the pending one.
targetCandidates_ActiveBeforePending(s, records, preferredId) ==
  LET c1 == IF preferredId # NULL THEN <<preferredId>> ELSE <<>>
      c2 == IF s.activeCardId # NULL /\ ~Includes(c1, s.activeCardId)
            THEN Append(c1, s.activeCardId) ELSE c1
      c3 == IF s.pendingRecordId # NULL /\ ~Includes(c2, s.pendingRecordId)
            THEN Append(c2, s.pendingRecordId) ELSE c2
  IN IF c3 = <<>> /\ records # <<>> /\ records[1] # NULL
     THEN Append(c3, records[1]) ELSE c3

\* As targetCandidates, with preferredId pushed last.
targetCandidates_PreferredLast(s, records, preferredId) ==
  LET c1 == IF s.pendingRecordId # NULL THEN <<s.pendingRecordId>> ELSE <<>>
      c2 == IF s.activeCardId # NULL /\ ~Includes(c1, s.activeCardId)
            THEN Append(c1, s.activeCardId) ELSE c1
      c3 == IF preferredId # NULL /\ ~Includes(c2, preferredId)
            THEN Append(c2, preferredId) ELSE c2
  IN IF c3 = <<>> /\ records # <<>> /\ records[1] # NULL
     THEN Append(c3, records[1]) ELSE c3

\* lines 160-179: the candidates (the warning for an unknown preferredId,
\* raised in the same lines, is warnUnknownPreferred)
targetCandidates(s, records, preferredId) ==
  LET c1 == IF preferredId # NULL THEN <<preferredId>> ELSE <<>>
      c2 == IF s.pendingRecordId # NULL /\ ~Includes(c1, s.pendingRecordId)
            THEN Append(c1, s.pendingRecordId) ELSE c1
      c3 == IF s.activeCardId # NULL /\ ~Includes(c2, s.activeCardId)
            THEN Append(c2, s.activeCardId) ELSE c2
  IN IF c3 = <<>> /\ records # <<>> /\ records[1] # NULL
     THEN Append(c3, records[1]) ELSE c3

warnUnknownPreferred(s, records, preferredId) ==
  IF preferredId # NULL /\ ~(preferredId \in Range(records))
  THEN LET t == showToast(s, "notfound") IN
       IF preferredId = t.pendingRecordId
       THEN [t EXCEPT !.pendingRecordId = NULL] ELSE t
  ELSE s

\* lines 181-189: the first candidate setActiveRecord accepts
RECURSIVE tryCandidates(_, _, _)
tryCandidates(s, candidates, forceDetail) ==
  IF candidates = <<>> THEN [s |-> s, ok |-> FALSE]
  ELSE LET candidate == Head(candidates) IN
       IF candidate = NULL THEN tryCandidates(s, Tail(candidates), forceDetail)
       ELSE LET shouldForce == forceDetail \/ candidate = s.pendingRecordId
                r == setActiveRecord(s, candidate, shouldForce, TRUE)
            IN IF r.ok THEN r ELSE tryCandidates(r.s, Tail(candidates), forceDetail)

\* As renderRecordList, without line 126: an empty list leaves activeCardId.
renderRecordList_KeepsActiveOnEmpty(s, records, preferredId, forceDetail) ==
  LET s0 == [s EXCEPT !.cards = <<>>, !.marks = {}, !.placeholder = FALSE] IN
  IF records = <<>>
  THEN renderEmptyDetail([s0 EXCEPT !.placeholder = TRUE], "nogames")
  ELSE LET s1 == [s0 EXCEPT !.cards = records]
           s2 == warnUnknownPreferred(s1, records, preferredId)
           r == tryCandidates(s2, targetCandidates(s2, records, preferredId), forceDetail)
       IN IF ~r.ok /\ records[1] # NULL
          THEN setActiveRecord(r.s, records[1], TRUE, TRUE).s
          ELSE r.s

renderRecordList(s, records, preferredId, forceDetail) ==
  LET s0 == [s EXCEPT !.cards = <<>>, !.marks = {}, !.placeholder = FALSE] IN
  IF records = <<>>
  THEN renderEmptyDetail([s0 EXCEPT !.activeCardId = NULL, !.placeholder = TRUE],
                         "nogames")
  ELSE LET s1 == [s0 EXCEPT !.cards = records]
           s2 == warnUnknownPreferred(s1, records, preferredId)
           r == tryCandidates(s2, targetCandidates(s2, records, preferredId), forceDetail)
       IN IF ~r.ok /\ records[1] # NULL
          THEN setActiveRecord(r.s, records[1], TRUE, TRUE).s
          ELSE r.s

\* The refreshes issued before request i, still awaiting their response when
\* that of i is rendered, are superseded by it.
Supersede(q, i) ==
  [j \in DOMAIN q |-> IF j < i THEN [q[j] EXCEPT !.superseded = TRUE] ELSE q[j]]

\* Up to its await: the list request is issued; preferredId and options are
\* kept by the suspended call (superseded is not part of the program's state).
refreshDashboard(s, preferredId, forceDetail) ==
  Emit([s EXCEPT !.listReqs = Append(@, [preferredId |-> preferredId,
                                         forceDetail |-> forceDetail,
                                         superseded |-> FALSE])],
       "fetchList", preferredId)

\* As setStartButtonState, without line 320: the button is never disabled.
setStartButtonState_NeverDisables(s, label, disabled) ==
  [s EXCEPT !.button = [label |-> label, disabled |-> FALSE],
            !.trace = Append(@, Effect("button", 0, label))]

setStartButtonState(s, label, disabled) ==
  [s EXCEPT !.button = [label |-> label, disabled |-> disabled],
            !.trace = Append(@, Effect("button", IF disabled THEN 1 ELSE 0, label))]

clearGameTaskTimer(s) ==
  IF s.gameTaskTimer # NULL
  THEN Emit([s EXCEPT !.timers = @ \ {s.gameTaskTimer}, !.gameTaskTimer = NULL],
            "clearTimer", s.gameTaskTimer)
  ELSE s

\* poll(), up to its await: the status request of taskId is issued.
poll(s, taskId) ==
  Emit([s EXCEPT !.pollReqs = @ \cup {taskId}], "fetchStatus", taskId)

\* As monitorGameTask, without line 332: a submission answered without a
\* task id leaves the button as it is.
monitorGameTask_KeepsButton(s, taskId) ==
  IF taskId = NULL THEN s ELSE poll(s, taskId)

monitorGameTask(s, taskId) ==
  IF taskId = NULL
  THEN setStartButtonState(s, DefaultLabel, FALSE)
  ELSE poll(s, taskId)

\* The message of line 353 for a payload whose error field is `error`.
TaskFailedMessage(error) ==
  "taskfailed: " \o (IF error # "" THEN error ELSE "unknown")

\* As pollPayload, with the refresh of a finished task issued before the
\* timer is cleared and the button restored.
pollPayload_RefreshesFirst(s, taskId, status, recordId, error) ==
  IF status = "running"
  THEN Emit([s EXCEPT !.gameTaskTimer = taskId, !.timers = @ \cup {taskId}],
            "setTimer", taskId)
  ELSE IF status = "finished"
  THEN LET s1 == [s EXCEPT !.pendingRecordId = recordId]
           s2 == refreshDashboard(showToast(s1, "finished"), recordId, TRUE)
       IN setStartButtonState(clearGameTaskTimer(s2), DefaultLabel, FALSE)
  ELSE LET s2 == setStartButtonState(clearGameTaskTimer(s), DefaultLabel, FALSE)
       IN IF status = "failed" THEN showToast(s2, TaskFailedMessage(error)) ELSE s2

\* As pollPayload, with a failed task refreshing the dashboard as a finished
\* one does.
pollPayload_RefreshesOnFailure(s, taskId, status, recordId, error) ==
  IF status = "running"
  THEN Emit([s EXCEPT !.gameTaskTimer = taskId, !.timers = @ \cup {taskId}],
            "setTimer", taskId)
  ELSE LET s1 == clearGameTaskTimer(s)
           s2 == setStartButtonState(s1, DefaultLabel, FALSE)
       IN IF status = "finished"
          THEN LET s3 == [s2 EXCEPT !.pendingRecordId = recordId]
                   s4 == showToast(s3, "finished")
               IN refreshDashboard(s4, recordId, TRUE)
          ELSE IF status = "failed"
          THEN refreshDashboard(showToast(s2, TaskFailedMessage(error)), NULL, FALSE)
          ELSE s2

\* poll(), after its await, with the payload fetchJSON returned: lines 339-354.
pollPayload(s, taskId, status, recordId, error) ==
  IF status = "running"
  THEN Emit([s EXCEPT !.gameTaskTimer = taskId, !.timers = @ \cup {taskId}],
            "setTimer", taskId)
  ELSE LET s1 == clearGameTaskTimer(s)
           s2 == setStartButtonState(s1, DefaultLabel, FALSE)
       IN IF status = "finished"
          THEN LET s3 == [s2 EXCEPT !.pendingRecordId = recordId]
                   s4 == showToast(s3, "finished")
               IN refreshDashboard(s4, recordId, TRUE)
          ELSE IF status = "failed"
          THEN showToast(s2, TaskFailedMessage(error))
          ELSE s2

\* --------------------------------------------------------------- actions
\* bootstrap(): refreshDashboard(pendingRecordId), then awaits it.
Bootstrap ==
  /\ pc = "loading"
  /\ Becomes(refreshDashboard(Here, pendingRecordId, FALSE))
  /\ pc' = "booting"
  /\ last' = Other("bootstrap")
  /\ UNCHANGED tasksStarted

\* GET /api/records answers request i with `records`: refreshDashboard's
\* continuation, lines 308-310.  When it is bootstrap's refresh, bootstrap
\* resumes and attaches the start button's listener.
ListResponse(i, records) ==
  /\ i \in DOMAIN listReqs
  /\ LET req == listReqs[i]
         s0 == [Here EXCEPT !.listReqs = RemoveAt(Supersede(@, i), i)]
         s1 == renderSummary([s0 EXCEPT !.fetched = records], records)
         targetId == IF req.preferredId # NULL THEN req.preferredId
                     ELSE s1.pendingRecordId
     IN /\ Becomes(renderRecordList(s1, records, targetId, req.forceDetail))
        /\ last' = [Called("render", records, targetId, req.forceDetail)
                      EXCEPT !.superseded = req.superseded,
                             !.replaced = req.superseded /\ records # cards]
  /\ pc' = "ready"
  /\ UNCHANGED tasksStarted

\* As ListFailure, with the catch rendering an empty list.
ListFailure_RendersEmpty(i) ==
  /\ i \in DOMAIN listReqs
  /\ LET s0 == [Here EXCEPT !.listReqs = RemoveAt(@, i)]
     IN Becomes(showToast(renderRecordList(s0, <<>>, NULL, FALSE), "listfail"))
  /\ last' = Other("listfail")
  /\ pc' = "ready"
  /\ UNCHANGED tasksStarted

\* GET /api/records fails (transport error or non-2xx): lines 311-314.
ListFailure(i) ==
  /\ i \in DOMAIN listReqs
  /\ Becomes(showToast([Here EXCEPT !.listReqs = RemoveAt(@, i)], "listfail"))
  /\ last' = Other("listfail")
  /\ pc' = "ready"
  /\ UNCHANGED tasksStarted

\* As ClickCard, with the listener calling setActiveRecord without force.
ClickCard_NotForced(recordId) ==
  /\ recordId \in Range(cards)
  /\ Becomes(setActiveRecord(Here, recordId, FALSE, TRUE).s)
  /\ last' = Called("click", <<>>, recordId, TRUE)
  /\ UNCHANGED <<tasksStarted, pc>>

\* The click listener of a record card, line 153-155.
ClickCard(recordId) ==
  /\ recordId \in Range(cards)
  /\ Becomes(setActiveRecord(Here, recordId, TRUE, TRUE).s)
  /\ last' = Called("click", <<>>, recordId, TRUE)
  /\ UNCHANGED <<tasksStarted, pc>>

\* GET /api/records/{id} answers request i: loadRecordDetail's continuation.
\* The panel shows what the response carries, the detail of the record asked
\* for; detail.id is that record, also under the "load failed" placeholder.
DetailResponse(i) ==
  /\ i \in DOMAIN detailReqs
  /\ Becomes(renderDetail([Here EXCEPT !.detailReqs = RemoveAt(@, i)], detailReqs[i]))
  /\ last' = Other("detail")
  /\ UNCHANGED <<tasksStarted, pc>>

DetailFailure(i) ==
  /\ i \in DOMAIN detailReqs
  /\ LET s0 == [Here EXCEPT !.detailReqs = RemoveAt(@, i)]
         s1 == renderEmptyDetail(showToast(s0, "detailfail"), "loadfailed")
     IN Becomes([s1 EXCEPT !.detail.id = detailReqs[i]])
  /\ last' = Other("detailfail")
  /\ UNCHANGED <<tasksStarted, pc>>

\* handleStartGame, up to its await.  The listener exists once bootstrap has
\* finished, and a disabled button delivers no click.
HandleStartGame ==
  /\ pc = "ready"
  /\ ~button.disabled
  /\ tasksStarted < MaxTasks
  /\ LET s1 == setStartButtonState(Here, StartingLabel, TRUE)
     IN Becomes(Emit([s1 EXCEPT !.submitReqs = @ + 1], "fetchSubmit", NULL))
  /\ last' = Other("start")
  /\ UNCHANGED <<tasksStarted, pc>>

\* POST /api/games answers; hasTaskId is whether the payload carries a task_id.
SubmitResponse(hasTaskId) ==
  /\ submitReqs > 0
  /\ tasksStarted' = tasksStarted + 1
  /\ LET taskId == IF hasTaskId THEN tasksStarted + 1 ELSE NULL
         s0 == [Here EXCEPT !.submitReqs = @ - 1]
         s1 == showToast(s0, "submitted")
         s2 == setStartButtonState(s1, RunningLabel, TRUE)
         s3 == clearGameTaskTimer(s2)
     IN Becomes(monitorGameTask(s3, taskId))
  /\ last' = Other("submitted")
  /\ UNCHANGED pc

SubmitFailure ==
  /\ submitReqs > 0
  /\ LET s0 == [Here EXCEPT !.submitReqs = @ - 1]
         s1 == setStartButtonState(s0, DefaultLabel, FALSE)
     IN Becomes(showToast(s1, "submitfail"))
  /\ last' = Other("submitfail")
  /\ UNCHANGED <<tasksStarted, pc>>

\* GET /api/games/{taskId} answers with a payload of this `status` (with its
\* record_id when finished, its error when failed; "" is no error field).
PollResponse(taskId, status, recordId, error) ==
  /\ taskId \in pollReqs
  /\ status \in TaskStatuses
  /\ (status # "finished") => recordId = NULL
  /\ (status # "failed") => error = ""
  /\ Becomes(pollPayload([Here EXCEPT !.pollReqs = @ \ {taskId}],
                         taskId, status, recordId, error))
  /\ last' = IF status = "failed"
             THEN [Called(status, <<>>, NULL, FALSE) EXCEPT !.error = error]
             ELSE Other(status)
  /\ UNCHANGED <<tasksStarted, pc>>

\* GET /api/games/{taskId} answers 2xx with a body that is not JSON: fetchJSON
\* catches the parse error and returns {} (lines 28-32, 42), a payload with no
\* status, and poll goes on with it.
PollUnparseable(taskId) ==
  /\ taskId \in pollReqs
  /\ Becomes(pollPayload([Here EXCEPT !.pollReqs = @ \ {taskId}],
                         taskId, "undefined", NULL, ""))
  /\ last' = Other("unparseable")
  /\ UNCHANGED <<tasksStarted, pc>>

\* As PollFailure, without line 358: the catch of poll leaves the button.
PollFailure_KeepsDisabled(taskId) ==
  /\ taskId \in pollReqs
  /\ LET s0 == [Here EXCEPT !.pollReqs = @ \ {taskId}]
     IN Becomes(showToast(clearGameTaskTimer(s0), "pollfail"))
  /\ last' = Other("pollfail")
  /\ UNCHANGED <<tasksStarted, pc>>

\* The status request fails (transport error or non-2xx): the catch of poll.
PollFailure(taskId) ==
  /\ taskId \in pollReqs
  /\ LET s0 == [Here EXCEPT !.pollReqs = @ \ {taskId}]
         s1 == clearGameTaskTimer(s0)
         s2 == setStartButtonState(s1, DefaultLabel, FALSE)
     IN Becomes(showToast(s2, "pollfail"))
  /\ last' = Other("pollfail")
  /\ UNCHANGED <<tasksStarted, pc>>

\* The poll timer of taskId fires: poll() runs again.
TimerFires(taskId) ==
  /\ taskId \in timers
  /\ Becomes(poll([Here EXCEPT !.timers = @ \ {taskId}], taskId))
  /\ last' = Other("tick")
  /\ UNCHANGED <<tasksStarted, pc>>

\* ----------------------------------------------------------- the program
Init ==
  /\ activeCardId = NULL
  /\ pendingRecordId \in Ids \cup {NULL}
  /\ url = pendingRecordId
  /\ gameTaskTimer = NULL
  /\ cards = <<>>
  /\ placeholder = FALSE
  /\ marks = {}
  /\ detail = [kind |-> "initial", id |-> NULL]
  /\ summary = -1
  /\ button = [label |-> DefaultLabel, disabled |-> FALSE]
  /\ detailReqs = <<>>
  /\ listReqs = <<>>
  /\ fetched = <<>>
  /\ submitReqs = 0
  /\ pollReqs = {}
  /\ timers = {}
  /\ tasksStarted = 0
  /\ pc = "loading"
  /\ trace = <<>>
  /\ last = Other("init")

Next ==
  \/ Bootstrap
  \/ \E i \in 1..MaxInFlight, records \in RecordLists : ListResponse(i, records)
  \/ \E i \in 1..MaxInFlight : ListFailure(i)
  \/ \E recordId \in Ids : ClickCard(recordId)
  \/ \E i \in 1..MaxInFlight : DetailResponse(i)
  \/ \E i \in 1..MaxInFlight : DetailFailure(i)
  \/ HandleStartGame
  \/ \E hasTaskId \in BOOLEAN : SubmitResponse(hasTaskId)
  \/ SubmitFailure
  \/ \E taskId \in TaskIds, status \in TaskStatuses, recordId \in Ids \cup {NULL},
          error \in Errors :
       PollResponse(taskId, status, recordId, error)
  \/ \E taskId \in TaskIds : PollUnparseable(taskId)
  \/ \E taskId \in TaskIds : PollFailure(taskId)
  \/ \E taskId \in TaskIds : TimerFires(taskId)

Spec == Init /\ [][Next]_vars

\* ------------------------------------------------- the program, fairly
\* The requests fetchJSON issues complete, with a response or an error: the
\* submission, the status poll, and those of the dashboard.
SubmitCompletes ==
  \/ \E hasTaskId \in BOOLEAN : SubmitResponse(hasTaskId)
  \/ SubmitFailure

PollCompletes ==
  \/ \E taskId \in TaskIds, status \in TaskStatuses, recordId \in Ids \cup {NULL},
        error \in Errors :
       PollResponse(taskId, status, recordId, error)
  \/ \E taskId \in TaskIds : PollUnparseable(taskId) \/ PollFailure(taskId)

ViewRequestCompletes ==
  \/ \E i \in 1..MaxInFlight, records \in RecordLists : ListResponse(i, records)
  \/ \E i \in 1..MaxInFlight :
       ListFailure(i) \/ DetailResponse(i) \/ DetailFailure(i)

\* A poll ends the polling of its task: any answer but 'running', or an error.
TaskEnds ==
  \/ \E taskId \in TaskIds, status \in TaskStatuses \ {"running"},
        recordId \in Ids \cup {NULL}, error \in Errors :
       PollResponse(taskId, status, recordId, error)
  \/ \E taskId \in TaskIds : PollUnparseable(taskId) \/ PollFailure(taskId)

\* Requests complete, a scheduled timer fires, and a task does not stay
\* 'running' for ever: of its polls, one ends it.
Fairness ==
  /\ WF_vars(SubmitCompletes)
  /\ WF_vars(PollCompletes)
  /\ WF_vars(ViewRequestCompletes)
  /\ SF_vars(\E taskId \in TaskIds : TimerFires(taskId))
  /\ SF_vars(TaskEnds)

SpecLive == Init /\ [][Next]_vars /\ Fairness

\* ------------------------------------------------ the reconciler alone
\* renderRecordList applied to any list and any options (its parameters
\* default to preferredId = null, forceDetail = false).
RenderRecordListCall(records, preferredId, forceDetail) ==
  /\ Becomes(renderRecordList([Here EXCEPT !.fetched = records], records,
                              preferredId, forceDetail))
  /\ last' = Called("render", records, preferredId, forceDetail)
  /\ UNCHANGED <<tasksStarted, pc>>

\* The states of an idle page, with no request outstanding, in which the
\* reconciler may be called: a list is rendered and one of its records is
\* active and shown, or the list is empty; pendingRecordId holds the intent
\* of the URL or of a finished task (line 349), or nothing.  The program
\* reaches each of them (under Spec, once the backend has handed out its
\* MaxTasks tasks); which callback ran last is forgotten.
InitRec ==
  /\ cards \in RecordLists
  /\ fetched = cards
  /\ summary = Len(cards)
  /\ placeholder = (cards = <<>>)
  /\ activeCardId \in IF cards = <<>> THEN {NULL} ELSE Range(cards)
  /\ marks = IF activeCardId = NULL THEN {} ELSE {activeCardId}
  /\ detail = IF activeCardId = NULL THEN [kind |-> "nogames", id |-> NULL]
              ELSE [kind |-> "detail", id |-> activeCardId]
  /\ url \in IF activeCardId = NULL THEN Ids \cup {NULL} ELSE {activeCardId}
  /\ pendingRecordId \in Ids \cup {NULL}
  /\ gameTaskTimer = NULL
  /\ button = [label |-> DefaultLabel, disabled |-> FALSE]
  /\ detailReqs = <<>>
  /\ listReqs = <<>>
  /\ submitReqs = 0
  /\ pollReqs = {}
  /\ timers = {}
  /\ tasksStarted = MaxTasks
  /\ pc = "ready"
  /\ trace = <<>>
  /\ last = Other("init")

NextRec ==
  \/ \E records \in RecordLists, preferredId \in Ids \cup {NULL}, forceDetail \in BOOLEAN :
       RenderRecordListCall(records, preferredId, forceDetail)
  \/ \E recordId \in Ids : ClickCard(recordId)
  \/ \E i \in 1..MaxInFlight : DetailResponse(i)

SpecRec == InitRec /\ [][NextRec]_vars

\* ============================================================ properties
ToastCount(message) ==
  Cardinality({i \in DOMAIN trace : trace[i].e = "toast" /\ trace[i].m = message})

\* The detail requests the last callback issued.
DetailFetches == {i \in DOMAIN trace : trace[i].e = "fetchDetail"}

\* The record ids the last callback wrote to the URL.
UrlWrites == {i \in DOMAIN trace : trace[i].e = "replaceState" /\ trace[i].v # NULL}

Reconciled == last.op = "render" /\ last.records # <<>>

\* C1: once every detail response has been handled, the detail panel shows
\* the detail (or the load-failure placeholder) of the active record, never
\* that of another record whose response arrived late.
C1_StaleResponseGuard ==
  (activeCardId # NULL /\ detailReqs = <<>> /\ detail.kind \in {"detail", "loadfailed"})
    => detail.id = activeCardId

\* C2: when renderRecordList returns from a non-empty list, activeCardId is
\* the id of a record of that list.
C2_SelectedIsMember ==
  Reconciled => (activeCardId # NULL /\ activeCardId \in Range(last.records))

\* C2's case: none of preferredId, pendingRecordId and the active id is in
\* the list.
C2_Witness ==
  /\ Reconciled
  /\ last.preferredId # NULL /\ last.preferredId \notin Range(last.records)
  /\ last.pendingRecordId # NULL /\ last.pendingRecordId \notin Range(last.records)
  /\ last.activeCardId # NULL /\ last.activeCardId \notin Range(last.records)

\* The reference rule: the first of preferredId, pendingRecordId and the
\* active id that is in the list, else the first record of the list.
Reference(preferredId, pendingId, activeId, records) ==
  IF preferredId # NULL /\ preferredId \in Range(records) THEN preferredId
  ELSE IF pendingId # NULL /\ pendingId \in Range(records) THEN pendingId
  ELSE IF activeId # NULL /\ activeId \in Range(records) THEN activeId
  ELSE records[1]

\* C3: the record renderRecordList makes active on a non-empty list is the
\* one the reference rule names.
C3_ReferenceRule ==
  Reconciled =>
    activeCardId = Reference(last.preferredId, last.pendingRecordId,
                             last.activeCardId, last.records)

\* C3's case: the pending id and the active id are both in the list and
\* differ, and the pending one wins.
C3_Witness ==
  /\ Reconciled
  /\ last.preferredId \notin Range(last.records)
  /\ last.pendingRecordId \in Range(last.records)
  /\ last.activeCardId \in Range(last.records)
  /\ last.pendingRecordId # last.activeCardId
  /\ last.records[1] # last.pendingRecordId
  /\ activeCardId = last.pendingRecordId

\* C4: after every reconciliation over a non-empty list and after every
\* card click, exactly one card is marked active, the card of activeCardId.
C4_ExactlyOneMarked ==
  (Reconciled \/ last.op = "click") => (activeCardId # NULL /\ marks = {activeCardId})

\* C5: the reconciler invoked again with the already-active id and
\* force = false issues no detail fetch and leaves the marked card and
\* activeCardId as they were.
C5_Idempotent ==
  (/\ Reconciled
   /\ ~last.forceDetail
   /\ last.activeCardId # NULL
   /\ last.activeCardId \in Range(last.records)
   /\ last.preferredId \in {NULL, last.activeCardId}
   /\ last.pendingRecordId = NULL)
    => (/\ DetailFetches = {}
        /\ activeCardId = last.activeCardId
        /\ marks = last.marks)

\* C6: a refresh reconciled with a preferredId that is in no fetched record
\* emits exactly one "not found" warning and does not keep that id pending
\* for the next refresh.
C6_WarnOnceAndDrop ==
  (last.op = "render" /\ last.preferredId # NULL
     /\ last.preferredId \notin Range(last.records))
    => (ToastCount("notfound") = 1 /\ pendingRecordId # last.preferredId)

\* C7: after every completed refresh, of an empty list or not,
\* pendingRecordId is null.
C7_PendingCleared == last.op = "render" => pendingRecordId = NULL

\* C8: a refresh that fetches an empty list leaves no record active, shows
\* the placeholder card and the "no games yet" detail, starts no detail
\* fetch and writes no record id to the URL.
C8_EmptyList ==
  (last.op = "render" /\ last.records = <<>>)
    => (/\ activeCardId = NULL
        /\ cards = <<>> /\ placeholder /\ marks = {}
        /\ detail.kind = "nogames"
        /\ DetailFetches = {}
        /\ UrlWrites = {})

\* C8's case: the list comes back empty while a record was active.
C8_Witness ==
  last.op = "render" /\ last.records = <<>> /\ last.activeCardId # NULL /\ url # NULL

\* C9: while no refresh is in flight, at most one card is marked active and
\* activeCardId is null or the id of a record of the last fetched list.
C9_ActiveInLastFetched ==
  listReqs = <<>> =>
    (Cardinality(marks) <= 1 /\ (activeCardId = NULL \/ activeCardId \in Range(fetched)))

\* C9's case: the record that was active is gone from the new list and
\* another record of the list has become active.
C9_Witness ==
  /\ listReqs = <<>>
  /\ Reconciled
  /\ last.activeCardId # NULL /\ last.activeCardId \notin Range(fetched)
  /\ activeCardId \in Range(fetched) /\ marks = {activeCardId}

\* C10: after every completed reconciliation and every card click the URL's
\* record parameter equals activeCardId, and names no record when none is
\* active.
C10_UrlReflectsActive ==
  last.op \in {"render", "click"} => url = activeCardId

\* C11: at most one poll exists, as a scheduled tick or as an outstanding
\* status request, and it is the poll of the task submitted last; a scheduled
\* tick is the one gameTaskTimer holds, so that clearing the handle cancels it.
C11_SinglePoll ==
  /\ Cardinality(pollReqs) + Cardinality(timers) <= 1
  /\ (pollReqs \cup timers) \subseteq {tasksStarted}
  /\ timers \subseteq {gameTaskTimer}

\* C11's case: a second task is being polled, its tick scheduled, after the
\* first one ended.
C11_Witness ==
  tasksStarted >= 2 /\ timers = {tasksStarted} /\ gameTaskTimer = tasksStarted

\* The positions in the trace of the last callback of the effects of kind e.
EffectsAt(e) == {i \in DOMAIN trace : trace[i].e = e}

\* C12: when a poll observes 'finished', the refresh request is issued once,
\* and before it the timer handle has been cleared (no tick is scheduled or
\* cancelled after it, and gameTaskTimer is null) and the button has been
\* given its enabled default label, the last thing done to it.
C12_ClearedBeforeRefresh ==
  last.op = "finished" =>
    \E k \in DOMAIN trace :
      /\ EffectsAt("fetchList") = {k}
      /\ gameTaskTimer = NULL /\ timers = {}
      /\ EffectsAt("setTimer") = {}
      /\ \A i \in EffectsAt("clearTimer") : i < k
      /\ EffectsAt("button") # {}
      /\ \A i \in EffectsAt("button") :
           i < k /\ trace[i] = Effect("button", 0, DefaultLabel)
      /\ button = [label |-> DefaultLabel, disabled |-> FALSE]

\* C12's case: the task finishes after a tick, so that the handle held a
\* timer and was cleared.
C12_Witness ==
  last.op = "finished" /\ EffectsAt("clearTimer") # {} /\ EffectsAt("fetchList") # {}

\* The refresh of a finished task has completed: the list it fetched has
\* been reconciled with forceDetail, and the task's record is in that list.
FinishedRefreshCompleted ==
  /\ last.op = "render" /\ last.forceDetail
  /\ last.preferredId # NULL /\ last.preferredId \in Range(last.records)

\* The task's record is active and its detail fetch has been issued.
ForcedActive ==
  /\ activeCardId = last.preferredId
  /\ \E k \in DOMAIN trace : /\ DetailFetches = {k}
                             /\ trace[k] = Effect("fetchDetail", last.preferredId, "")

\* No submission is outstanding and no poll is scheduled or outstanding.
Idle == submitReqs = 0 /\ pollReqs = {} /\ timers = {}

\* C13 as stated: when the refresh of a finished task completes and the
\* task's record R is in the fetched list, R is active with its detail fetch
\* issued, and the start button shows its enabled default label.
C13_AsStated ==
  FinishedRefreshCompleted =>
    (ForcedActive /\ button = [label |-> DefaultLabel, disabled |-> FALSE])

\* C13, amended: when the refresh of a finished task completes and the
\* task's record R is in the fetched list, R is active with its detail fetch
\* issued, whatever was active or clicked before; the start button shows its
\* enabled default label unless another game has been started meanwhile.
C13_ForcedActive ==
  FinishedRefreshCompleted =>
    (ForcedActive /\ (Idle => button = [label |-> DefaultLabel, disabled |-> FALSE]))

\* C13's case: another record of the list was active (clicked while the
\* refresh was in flight, pendingRecordId cleared by the click) when the
\* refresh completed, and no other game has been started.
C13_Witness ==
  /\ FinishedRefreshCompleted
  /\ last.activeCardId # last.preferredId
  /\ last.activeCardId \in Range(last.records)
  /\ last.pendingRecordId = NULL
  /\ tasksStarted >= 1 /\ Idle
  /\ button = [label |-> DefaultLabel, disabled |-> FALSE]

\* C17: the start button mirrors the supervisor: enabled with the default
\* label exactly when idle, disabled with the 'starting' label exactly while
\* the submission is outstanding, disabled with the 'running' label exactly
\* while a poll is scheduled or outstanding.
C17_ButtonMirrorsSupervisor ==
  /\ (button = [label |-> DefaultLabel, disabled |-> FALSE]) <=> Idle
  /\ (button = [label |-> StartingLabel, disabled |-> TRUE]) <=> (submitReqs > 0)
  /\ (button = [label |-> RunningLabel, disabled |-> TRUE])
       <=> (pollReqs # {} \/ timers # {})

\* C17's case: a task is being polled, its next tick scheduled, the button
\* disabled under the 'running' label.
C17_Witness ==
  /\ timers # {}
  /\ button = [label |-> RunningLabel, disabled |-> TRUE]

\* C14: when a poll observes 'failed', exactly one notification is shown and
\* it carries the payload's error message; no refresh and no further poll is
\* issued or scheduled, activeCardId and pendingRecordId are what they were,
\* and the start button shows its enabled default label.
C14_FailedTask ==
  last.op = "failed" =>
    /\ \E k \in DOMAIN trace :
         /\ EffectsAt("toast") = {k}
         /\ trace[k].m = "taskfailed: " \o (IF last.error # "" THEN last.error
                                                               ELSE "unknown")
    /\ EffectsAt("fetchList") = {}
    /\ EffectsAt("fetchStatus") = {} /\ EffectsAt("setTimer") = {}
    /\ Idle /\ gameTaskTimer = NULL
    /\ activeCardId = last.activeCardId
    /\ pendingRecordId = last.pendingRecordId
    /\ button = [label |-> DefaultLabel, disabled |-> FALSE]

\* C14's case: the task fails with an error message after a tick, while a
\* record is active.
C14_Witness ==
  /\ last.op = "failed" /\ last.error # ""
  /\ last.activeCardId # NULL
  /\ EffectsAt("clearTimer") # {}

\* C15: a status poll that ends in a transport error or in a parse error
\* clears the timer, schedules no further poll, issues no refresh, restores
\* the enabled default label and shows exactly one 'poll failed' notification.
C15_PollErrorHandled ==
  last.op \in {"pollfail", "unparseable"} =>
    /\ gameTaskTimer = NULL /\ Idle
    /\ EffectsAt("setTimer") = {} /\ EffectsAt("fetchStatus") = {}
    /\ EffectsAt("fetchList") = {}
    /\ button = [label |-> DefaultLabel, disabled |-> FALSE]
    /\ ToastCount("pollfail") = 1 /\ Cardinality(EffectsAt("toast")) = 1

\* C16: when requests complete and the task reaches a terminal outcome, a
\* start button that has been disabled by a submission is eventually enabled
\* again under its default label.
C16_EventuallyEnabled ==
  button.disabled ~> (button = [label |-> DefaultLabel, disabled |-> FALSE])

\* C16's case: a task has been polled across a tick and has come to a
\* terminal outcome, and the button is enabled again.
C16_Witness ==
  /\ tasksStarted >= 1
  /\ last.op \in {"finished", "failed", "pollfail", "submitfail"}
  /\ EffectsAt("button") # {}
  /\ button = [label |-> DefaultLabel, disabled |-> FALSE]

\* C18: a refresh whose list request fails leaves the rendered list, the
\* active marking, the detail panel, the summary, activeCardId,
\* pendingRecordId and the URL as they were, and shows exactly one
\* list-fetch-failure notification.
C18_FailedRefreshFrame ==
  [][last'.op = "listfail" =>
       /\ UNCHANGED <<cards, placeholder, marks, detail, summary, fetched,
                      activeCardId, pendingRecordId, url>>
       /\ trace' = <<Effect("toast", NULL, "listfail")>>]_vars

\* C18's case: the list request failed while a list was rendered and the
\* detail of its active record shown.
C18_Witness ==
  /\ last.op = "listfail"
  /\ cards # <<>> /\ activeCardId # NULL /\ marks = {activeCardId}
  /\ detail = [kind |-> "detail", id |-> activeCardId]

\* C19: a click on the card of record R makes R the active record, marks
\* only R's card, writes R to the URL, clears pendingRecordId and issues one
\* detail fetch, for R, whatever was active or pending before.
C19_ClickWins ==
  last.op = "click" =>
    /\ activeCardId = last.preferredId
    /\ marks = {last.preferredId}
    /\ url = last.preferredId
    /\ \E k \in DOMAIN trace : trace[k] = Effect("replaceState", last.preferredId, "")
    /\ pendingRecordId = NULL
    /\ \E k \in DOMAIN trace : /\ DetailFetches = {k}
                               /\ trace[k] = Effect("fetchDetail", last.preferredId, "")
    /\ last.preferredId \in Range(detailReqs)

\* C19's case: the clicked record was already the active one, and another
\* record was pending.
C19_Witness ==
  /\ last.op = "click"
  /\ last.activeCardId = last.preferredId
  /\ last.pendingRecordId \notin {NULL, last.preferredId}

\* C20: when the refresh of a finished task completes after a refresh issued
\* later (that of the next finished task) has already been rendered and has
\* made a record active that the older response lists too, the rendered list
\* and the active record stay those of the later refresh.
C20_NewestRefreshWins ==
  (/\ last.op = "render" /\ last.forceDetail /\ last.superseded
   /\ last.preferredId # NULL
   /\ last.activeCardId # NULL /\ last.activeCardId \in Range(last.records))
    => (~last.replaced /\ activeCardId = last.activeCardId)

====
